---- MODULE Spec2Model ----
(***************************************************************************)
(* Model of the tagged-union container Variant<Ts...> of variant.hpp.      *)
(* The alternative list is the one main.cpp instantiates,                  *)
(* Variant<int, std::string, Logger>.  Every member function is a sequence *)
(* of statements (its body, in source order); one action executes one      *)
(* statement, so the states between two statements of a member function    *)
(* are states of the model.                                                *)
(***************************************************************************)
EXTENDS Integers, Sequences, FiniteSets, TLC

\* ---------------------------------------------------------------- bounds
MaxVal == 2         \* alternative values range over 1..MaxVal
SizeBits == 4       \* width of size_t and int64_t (64 in the program), scaled
MaxLen == 3         \* longest alternative list given to the type/index resolver

\* The Variant objects of the program.  A member function has at most two
\* Variant operands, *this and other; the two objects take both roles.
Vars == {1, 2}

\* ------------------------------------------------------- alternative list
\* The alternative list Ts... of the Variant specialization the program
\* uses; it is fixed when the program is compiled and never changes.
VARIABLE Ts

\* main.cpp:37  Variant<int, std::string, Logger>
MainTs == <<"int", "string", "Logger">>

\* README.md:378  Variant<int, std::string, double>: every alternative has
\* an operator==, which Logger (main.cpp:8-32) has not.
ComparableTs == <<"int", "string", "double">>

\* variant.hpp:182
m_size == Len(Ts)

\* variant.hpp:183
null_type == -1

\* Types a caller can name; not all of them are alternatives of Ts.
Types == {"int", "string", "Logger", "double"}

\* The same types with the cv and reference qualifiers a caller can add.
QueryTypes == Types \cup {"const int&", "const string&", "Logger&&", "const double"}

\* variant.hpp:56-75  Position<id, U, Ts...>::pos
RECURSIVE Position(_, _, _)
Position(id, U, ts) ==
    IF ts = <<>> THEN -1
    ELSE IF Head(ts) = U THEN id
    ELSE Position(id + 1, U, Tail(ts))

\* find_idx_by_type counting the alternatives from one.
find_idx_by_type_from_one(FindT, ts) == Position(1, FindT, ts)

\* variant.hpp:74-75
find_idx_by_type(FindT, ts) == Position(0, FindT, ts)

\* variant.hpp:77-92
RECURSIVE find_type_by_idx(_, _)
find_type_by_idx(id, ts) ==
    IF id = 0 THEN Head(ts) ELSE find_type_by_idx(id - 1, Tail(ts))

\* ------------------------------------------------------ alternative types
\* Values a caller passes for an alternative type.
AltVals(T) == 1..MaxVal

\* State in which T's move constructor leaves its source:
\* Logger(Logger&&) sets other.id = -1 (main.cpp:14-18); a moved-from
\* std::string is valid but unspecified (empty, written 0, or unchanged);
\* an int is unchanged.
MovedFrom(T, x) ==
    IF T = "Logger" THEN {-1}
    ELSE IF T = "string" THEN {0, x}
    ELSE {x}

\* ---------------------------------------------------------------- state
VARIABLES
    alive,      \* alive[v]: the Variant object v is within its lifetime
    type_idx,   \* variant.hpp:189  discriminant of v
    m_storage,  \* variant.hpp:190  the union cell of v
    frame,      \* the member function being executed and its position
    trace,      \* lifecycle events of the member function being executed
    pre,        \* type_idx and m_storage when the member function was called
    reader      \* a second thread that calls holds_alternative<T>, then get<T>

vars == <<Ts, alive, type_idx, m_storage, frame, trace, pre, reader>>

\* variant.hpp:94-114  a Storage<Ts...> holds no object until one is placed
RawCell == [alt |-> -1, val |-> 0, st |-> "raw"]

LiveCell(i, x) == [alt |-> i, val |-> x, st |-> "live"]

IdleFrame == [op |-> "none", self |-> 0, other |-> 0, T |-> "none",
              val |-> 0, alias |-> FALSE, pc |-> 0]

\* The second thread before it has called anything.  busy: a member function
\* of the other thread was running at the check or at the access, or the
\* cell changed between the two; cell: the cell at the check; s, held: the
\* state of the slot and the discriminant at the access.
IdleReader == [pc |-> 0, v |-> 0, T |-> "none", busy |-> FALSE,
               cell |-> RawCell, s |-> "none", held |-> -1]

NoPre == [type_idx |-> [v \in Vars |-> null_type],
          m_storage |-> [v \in Vars |-> RawCell]]

\* The state before any Variant of the specialization exists.
Start ==
    /\ alive = [v \in Vars |-> FALSE]
    /\ type_idx = [v \in Vars |-> null_type]
    /\ m_storage = [v \in Vars |-> RawCell]
    /\ frame = IdleFrame
    /\ trace = <<>>
    /\ pre = NoPre
    /\ reader = IdleReader

Init == Ts = MainTs /\ Start

\* Types whose destructor is trivial (std::is_trivially_destructible_v).
TriviallyDestructible == {"int", "double"}

\* ------------------------------------------------------------ storage cell
\* Lifetime status of the object at union member id of a cell.
SlotState(cell, id) == IF cell.alt = id THEN cell.st ELSE "raw"

\* Values a read of a member outside the lifetime of its object can yield.
GarbageVals == -1..MaxVal

\* variant.hpp:116-140  get_storage_value<id>: the values a read of member id
\* yields: the value of the object living there; the bytes a trivial
\* destructor left behind; any value when the member holds no object.
get_storage_value(id, cell) ==
    IF SlotState(cell, id) = "live" THEN {cell.val}
    ELSE IF SlotState(cell, id) = "destroyed"
            /\ find_type_by_idx(id, Ts) \in TriviallyDestructible THEN {cell.val}
    ELSE GarbageVals

\* variant.hpp:142-160  construct_variant_value: walk the Storage chain to the
\* member whose type is U and placement-new U(val) there.
RECURSIVE construct_variant_value(_, _, _, _)
construct_variant_value(depth, ts, U, val) ==
    IF ts = <<>> THEN RawCell
    ELSE IF U = Head(ts) THEN LiveCell(depth, val)
    ELSE construct_variant_value(depth + 1, Tail(ts), U, val)

\* variant.hpp:162-174  destroy_variant_value<id>: run ~U() on member id.
\* A trivial destructor ends the lifetime and leaves the bytes in place.
destroy_variant_value(id, cell) ==
    [alt |-> id,
     val |-> IF find_type_by_idx(id, Ts) \in TriviallyDestructible /\ cell.alt = id
             THEN cell.val ELSE 0,
     st |-> "destroyed"]

\* is_all_trivially_destructible looking at the first alternative only.
is_all_trivially_destructible_head_only(ts) ==
    ts = <<>> \/ Head(ts) \in TriviallyDestructible

\* variant.hpp:42-54
RECURSIVE is_all_trivially_destructible(_)
is_all_trivially_destructible(ts) ==
    IF ts = <<>> THEN TRUE
    ELSE Head(ts) \in TriviallyDestructible /\ is_all_trivially_destructible(Tail(ts))

\* ---------------------------------------------------------------- observers
\* variant.hpp:230
index(v) == type_idx[v]

\* variant.hpp:193-197  get<idx>()
get(idx, v) == get_storage_value(idx, m_storage[v])

\* variant.hpp:199-213  get<T>()
get_T(T, v) == get(find_idx_by_type(T, Ts), v)

\* variant.hpp:11-18  trait::remove_cvref_t, on the type names callers use
remove_cvref_t(T) ==
    CASE T = "const int&" -> "int"
      [] T = "const string&" -> "string"
      [] T = "Logger&&" -> "Logger"
      [] T = "const double" -> "double"
      [] OTHER -> T

\* README.md:353-358  holds_alternative<T>() as first written, without the
\* branch for a type that is not in the list.
holds_alternative_T_unguarded(T, v) ==
    type_idx[v] = find_idx_by_type(remove_cvref_t(T), Ts)

\* variant.hpp:219-228  holds_alternative<T>()
holds_alternative_T(T, v) ==
    LET target_idx == find_idx_by_type(remove_cvref_t(T), Ts) IN
    IF target_idx = -1 THEN FALSE ELSE type_idx[v] = target_idx

\* Largest value of size_t, and the conversion of an int64_t to size_t that
\* the comparison of a size_t with an int64_t applies to the signed operand.
SizeMax == 2 ^ SizeBits - 1
to_size_t(x) == x % (2 ^ SizeBits)

\* variant.hpp:216-217  holds_alternative<id>():  return id == type_idx;
holds_alternative_id(id, v) == id = to_size_t(type_idx[v])

\* Types with an operator== (trait::is_equality_comparable_v, variant.hpp:20-31).
EqualityComparable == {"int", "string", "double"}

\* variant.hpp:426  (trait::is_equality_comparable_v<Ts> && ...)
all_types_are_comparable(ts) == \A i \in 1..Len(ts) : ts[i] \in EqualityComparable

\* variant.hpp:401-414  compare_value_func_constructor<I>: the results the
\* comparison of the two alternative-I values can have.
compare_value_func_constructor(I, self_storage, other_storage) ==
    IF find_type_by_idx(I, Ts) \in EqualityComparable
    THEN {x = y : x \in get_storage_value(I, self_storage),
                  y \in get_storage_value(I, other_storage)}
    ELSE {FALSE}

\* operator==(const Variant&) testing for Empty before comparing the indices.
operator_eq_null_first(self, other) ==
    IF type_idx[self] = null_type THEN {TRUE}
    ELSE IF type_idx[self] # type_idx[other] THEN {FALSE}
    ELSE compare_value_func_constructor(type_idx[self], m_storage[self],
                                        m_storage[other])

\* operator==(const Variant&) comparing the cells whatever the indices are.
operator_eq_ignores_index(self, other) ==
    IF type_idx[self] = null_type THEN {type_idx[other] = null_type}
    ELSE compare_value_func_constructor(type_idx[self], m_storage[self],
                                        [m_storage[other] EXCEPT !.alt = type_idx[self]])

\* variant.hpp:424-436  operator==(const Variant&)
operator_eq(self, other) ==
    IF type_idx[self] # type_idx[other] THEN {FALSE}
    ELSE IF type_idx[self] = null_type THEN {TRUE}
    ELSE compare_value_func_constructor(type_idx[self], m_storage[self],
                                        m_storage[other])

\* operator==(const T&) without the holds_alternative test.
operator_eq_value_unguarded(self, T, val) ==
    {x = val : x \in get_T(remove_cvref_t(T), self)}

\* variant.hpp:438-457  operator==(const T&)
operator_eq_value(self, T, val) ==
    LET U == remove_cvref_t(T) IN
    IF ~holds_alternative_T(U, self) THEN {FALSE}
    ELSE {x = val : x \in get_T(U, self)}

\* ------------------------------------------------- member function bodies
\* construct_from(const Variant&) dispatching through the move table.
construct_from_copy_by_move ==
    <<"type_idx=null_type", "if_other_null_return", "table_move",
      "type_idx=other.type_idx">>

\* construct_from(const Variant&) without the test for an Empty source.
construct_from_copy_no_null_test ==
    <<"type_idx=null_type", "table_copy", "type_idx=other.type_idx">>

\* construct_from(const Variant&) without the reset of the discriminant.
construct_from_copy_no_reset ==
    <<"if_other_null_return", "table_copy", "type_idx=other.type_idx">>

\* variant.hpp:277-288  construct_from(const Variant&)
construct_from_copy ==
    <<"type_idx=null_type", "if_other_null_return", "table_copy",
      "type_idx=other.type_idx">>

\* variant.hpp:290-301  construct_from(Variant&&)
construct_from_move ==
    <<"type_idx=null_type", "if_other_null_return", "table_move",
      "type_idx=other.type_idx">>

\* variant.hpp:304
Variant_default == <<"init", "return">>

\* Variant(T&&) without the discriminant write.
Variant_value_no_idx == <<"init", "construct_variant_value", "return">>

\* Variant(T&&) writing the discriminant before constructing the value.
Variant_value_idx_first ==
    <<"init", "type_idx=idx", "construct_variant_value", "return">>

\* variant.hpp:306-316
Variant_value == <<"init", "construct_variant_value", "type_idx=idx", "return">>

\* variant.hpp:338-341
Variant_copy == <<"init">> \o construct_from_copy \o <<"return">>

\* Variant(Variant&&) that empties its source before moving from it.
Variant_move_resets_first ==
    <<"init", "other.type_idx=null_type">> \o construct_from_move \o <<"return">>

\* Variant(Variant&&) that does not empty its source.
Variant_move_keeps_source == <<"init">> \o construct_from_move \o <<"return">>

\* variant.hpp:343-347
Variant_move ==
    <<"init">> \o construct_from_move \o <<"other.type_idx=null_type", "return">>

\* ~Variant() calling destroy() twice.
Variant_dtor_destroys_twice == <<"destroy", "destroy", "end_lifetime">>

\* ~Variant() left to the compiler: the cell is released as raw bytes.
Variant_dtor_no_destroy == <<"end_lifetime">>

\* variant.hpp:349-353
Variant_dtor ==
    IF ~is_all_trivially_destructible(Ts)
    THEN <<"destroy", "end_lifetime">>
    ELSE <<"end_lifetime">>

\* operator=(T&&) without the reset of the discriminant after destroy().
assign_value_no_reset ==
    <<"destroy", "construct_variant_value", "type_idx=idx", "return">>

\* operator=(T&&) resetting the discriminant before calling destroy().
assign_value_reset_first ==
    <<"type_idx=null_type", "destroy", "construct_variant_value",
      "type_idx=idx", "return">>

\* variant.hpp:356-370
assign_value ==
    <<"destroy", "type_idx=null_type", "construct_variant_value",
      "type_idx=idx", "return">>

\* operator=(const Variant&) without the destroy() call.
assign_copy_no_destroy == <<"if_self_return">> \o construct_from_copy \o <<"return">>

\* variant.hpp:372-382
assign_copy == <<"if_self_return", "destroy">> \o construct_from_copy \o <<"return">>

\* operator=(Variant&&) that does not empty its source.
assign_move_keeps_source ==
    <<"if_self_return", "destroy">> \o construct_from_move \o <<"return">>

\* operator=(Variant&&) without the identity check.
assign_move_no_guard ==
    <<"destroy">> \o construct_from_move \o <<"other.type_idx=null_type", "return">>

\* variant.hpp:384-396
assign_move ==
    <<"if_self_return", "destroy">> \o construct_from_move
        \o <<"other.type_idx=null_type", "return">>

\* variant.hpp:193-213  get<idx>() / get<T>()
get_idx == <<"get_storage_value", "return">>

\* variant.hpp:438-457
eq_value == <<"compare_value", "return">>

\* variant.hpp:424-436
eq_variant == <<"compare_variant", "return">>

Body(op) ==
    CASE op = "Variant()" -> Variant_default
      [] op = "get" -> get_idx
      [] op = "operator==(const T&)" -> eq_value
      [] op = "operator==(const Variant&)" -> eq_variant
      [] op = "Variant(T&&)" -> Variant_value
      [] op = "Variant(const Variant&)" -> Variant_copy
      [] op = "Variant(Variant&&)" -> Variant_move
      [] op = "~Variant" -> Variant_dtor
      [] op = "operator=(T&&)" -> assign_value
      [] op = "operator=(const Variant&)" -> assign_copy
      [] op = "operator=(Variant&&)" -> assign_move
      [] op \in {"unwind Variant(T&&)", "unwind Variant(const Variant&)"}
           -> <<"end_lifetime">>
      [] op \in {"unwind operator=(T&&)", "unwind operator=(const Variant&)"}
           -> <<"propagate">>
      [] OTHER -> <<>>

\* The member function op left by an exception: a constructor's object never
\* comes to life, an assignment hands the exception to its caller.
Unwind(op) ==
    CASE op = "Variant(T&&)" -> "unwind Variant(T&&)"
      [] op = "Variant(const Variant&)" -> "unwind Variant(const Variant&)"
      [] op = "operator=(T&&)" -> "unwind operator=(T&&)"
      [] op = "operator=(const Variant&)" -> "unwind operator=(const Variant&)"

\* The statement the running member function executes next.
CurStmt ==
    IF frame.pc = 0 \/ frame.pc > Len(Body(frame.op)) THEN "idle"
    ELSE Body(frame.op)[frame.pc]

Event(e, v, a, x, s) == [e |-> e, v |-> v, a |-> a, x |-> x, s |-> s]

Advance == frame' = [frame EXCEPT !.pc = @ + 1] /\ UNCHANGED <<Ts, reader>>

Snapshot == [type_idx |-> type_idx, m_storage |-> m_storage]

Enter(op, self, other, T, val, alias) ==
    /\ frame' = [op |-> op, self |-> self, other |-> other, T |-> T,
                 val |-> val, alias |-> alias, pc |-> 1]
    /\ trace' = <<>>
    /\ pre' = Snapshot
    /\ UNCHANGED <<Ts, reader, alive, type_idx, m_storage>>
\* ------------------------------------------------------------------ calls
\* variant.hpp:304  Variant v;
Call_Variant_default(v) ==
    /\ frame.pc = 0
    /\ ~alive[v]
    /\ Enter("Variant()", v, 0, "none", 0, FALSE)

\* Variant(T&&) without the enable_if on find_idx_by_type.
Call_Variant_value_unconstrained(v, T, val) ==
    /\ frame.pc = 0
    /\ ~alive[v]
    /\ Enter("Variant(T&&)", v, 0, T, val, FALSE)

\* variant.hpp:306-311  Variant v(val): enabled only for a listed type
Call_Variant_value(v, T, val) ==
    /\ frame.pc = 0
    /\ ~alive[v]
    /\ find_idx_by_type(T, Ts) # -1
    /\ Enter("Variant(T&&)", v, 0, T, val, FALSE)

\* variant.hpp:338  Variant v = other;
Call_Variant_copy(v, other) ==
    /\ frame.pc = 0
    /\ ~alive[v] /\ alive[other]
    /\ Enter("Variant(const Variant&)", v, other, "none", 0, FALSE)

\* variant.hpp:343  Variant v = std::move(other);
Call_Variant_move(v, other) ==
    /\ frame.pc = 0
    /\ ~alive[v] /\ alive[other]
    /\ Enter("Variant(Variant&&)", v, other, "none", 0, FALSE)

\* variant.hpp:349  v goes out of scope
Call_Variant_dtor(v) ==
    /\ frame.pc = 0
    /\ alive[v]
    /\ Enter("~Variant", v, 0, "none", 0, FALSE)

\* variant.hpp:356-361  v = val;  val is either an object of its own or, with
\* alias, the reference v.get<T>() to the value v holds.
Call_assign_value(v, T, val, alias) ==
    /\ frame.pc = 0
    /\ alive[v]
    /\ find_idx_by_type(T, Ts) # -1
    /\ alias => holds_alternative_T(T, v) /\ get_T(T, v) = {val}
    /\ Enter("operator=(T&&)", v, 0, T, val, alias)

\* variant.hpp:372  v = other;  (other may be v itself)
Call_assign_copy(v, other) ==
    /\ frame.pc = 0
    /\ alive[v] /\ alive[other]
    /\ Enter("operator=(const Variant&)", v, other, "none", 0, FALSE)

\* variant.hpp:384  v = std::move(other);
Call_assign_move(v, other) ==
    /\ frame.pc = 0
    /\ alive[v] /\ alive[other]
    /\ Enter("operator=(Variant&&)", v, other, "none", 0, FALSE)

\* ------------------------------------------------------------- statements
\* variant.hpp:189-190, 108  member initialisers of a constructor
Stmt_init ==
    /\ CurStmt = "init"
    /\ alive' = [alive EXCEPT ![frame.self] = TRUE]
    /\ type_idx' = [type_idx EXCEPT ![frame.self] = null_type]
    /\ m_storage' = [m_storage EXCEPT ![frame.self] = RawCell]
    /\ Advance
    /\ UNCHANGED <<trace, pre>>

\* variant.hpp:241-245, 233-240  destroy()
Stmt_destroy ==
    /\ CurStmt = "destroy"
    /\ LET self == frame.self
           id == find_idx_by_type(find_type_by_idx(type_idx[self], Ts), Ts)
       IN IF type_idx[self] # null_type
          THEN /\ m_storage' = [m_storage EXCEPT
                                  ![self] = destroy_variant_value(id, @)]
               /\ trace' = Append(trace,
                     Event("dtor", self, id, m_storage[self].val,
                           SlotState(m_storage[self], id)))
          ELSE UNCHANGED <<m_storage, trace>>
    /\ Advance
    /\ UNCHANGED <<alive, type_idx, pre>>

\* variant.hpp:364, 279, 292  type_idx = null_type;
Stmt_reset_idx ==
    /\ CurStmt = "type_idx=null_type"
    /\ type_idx' = [type_idx EXCEPT ![frame.self] = null_type]
    /\ trace' = Append(trace, Event("idx", frame.self, null_type, 0, "none"))
    /\ Advance
    /\ UNCHANGED <<alive, m_storage, pre>>

\* variant.hpp:314, 367  construct_variant_value(m_storage, std::forward<T>(val))
Stmt_construct_variant_value ==
    /\ CurStmt = "construct_variant_value"
    /\ LET self == frame.self
           id == find_idx_by_type(frame.T, Ts)
       IN \E x \in (IF frame.alias THEN get(id, self) ELSE {frame.val}) :
            /\ m_storage' = [m_storage EXCEPT
                               ![self] = construct_variant_value(0, Ts, frame.T, x)]
            /\ trace' = trace
                 \o (IF frame.alias
                     THEN <<Event("read", self, id, x, SlotState(m_storage[self], id))>>
                     ELSE <<>>)
                 \o <<Event("ctor", self, id, x, SlotState(m_storage[self], id))>>
    /\ Advance
    /\ UNCHANGED <<alive, type_idx, pre>>

\* variant.hpp:315, 368  type_idx = idx;
Stmt_set_idx ==
    /\ CurStmt = "type_idx=idx"
    /\ LET idx == find_idx_by_type(frame.T, Ts) IN
        /\ type_idx' = [type_idx EXCEPT ![frame.self] = idx]
        /\ trace' = Append(trace, Event("idx", frame.self, idx, 0, "none"))
    /\ Advance
    /\ UNCHANGED <<alive, m_storage, pre>>

\* variant.hpp:374-375, 386-387  if (this == &other) return *this;
Stmt_if_self_return ==
    /\ CurStmt = "if_self_return"
    /\ frame' = [frame EXCEPT !.pc = IF frame.self = frame.other
                                      THEN Len(Body(frame.op)) ELSE @ + 1]
    /\ UNCHANGED <<Ts, reader, alive, type_idx, m_storage, trace, pre>>

\* variant.hpp:281-282, 294-295  if (other.type_idx == null_type) return;
\* (returns from construct_from, skipping its table call and index write)
Stmt_if_other_null_return ==
    /\ CurStmt = "if_other_null_return"
    /\ frame' = [frame EXCEPT !.pc = IF type_idx[frame.other] = null_type
                                      THEN @ + 3 ELSE @ + 1]
    /\ UNCHANGED <<Ts, reader, alive, type_idx, m_storage, trace, pre>>

\* variant.hpp:284-285, 249-254  table[other.type_idx](this, other)
Stmt_table_copy ==
    /\ CurStmt = "table_copy"
    /\ LET self == frame.self
           other == frame.other
           id == type_idx[other]
       IN \E x \in get(id, other) :
            /\ m_storage' = [m_storage EXCEPT ![self] = LiveCell(id, x)]
            /\ trace' = trace
                 \o <<Event("read", other, id, x, SlotState(m_storage[other], id)),
                      Event("ctor", self, id, x, SlotState(m_storage[self], id))>>
    /\ Advance
    /\ UNCHANGED <<alive, type_idx, pre>>

\* variant.hpp:297-298, 256-262  table[other.type_idx](this, std::move(other))
Stmt_table_move ==
    /\ CurStmt = "table_move"
    /\ LET self == frame.self
           other == frame.other
           id == type_idx[other]
       IN \E x \in get(id, other) :
          \E y \in MovedFrom(find_type_by_idx(id, Ts), x) :
            /\ m_storage' = [m_storage EXCEPT ![other] = [@ EXCEPT !.val = y],
                                              ![self] = LiveCell(id, x)]
            /\ trace' = trace
                 \o <<Event("read", other, id, x, SlotState(m_storage[other], id)),
                      Event("ctor", self, id, x, SlotState(m_storage[self], id))>>
    /\ Advance
    /\ UNCHANGED <<alive, type_idx, pre>>

\* variant.hpp:287, 300  type_idx = other.type_idx;
Stmt_set_idx_from_other ==
    /\ CurStmt = "type_idx=other.type_idx"
    /\ type_idx' = [type_idx EXCEPT ![frame.self] = type_idx[frame.other]]
    /\ trace' = Append(trace,
                   Event("idx", frame.self, type_idx[frame.other], 0, "none"))
    /\ Advance
    /\ UNCHANGED <<alive, m_storage, pre>>

\* variant.hpp:346, 393  other.type_idx = null_type;
Stmt_reset_other ==
    /\ CurStmt = "other.type_idx=null_type"
    /\ type_idx' = [type_idx EXCEPT ![frame.other] = null_type]
    /\ trace' = Append(trace, Event("idx", frame.other, null_type, 0, "none"))
    /\ Advance
    /\ UNCHANGED <<alive, m_storage, pre>>

\* The member function returns to its caller.
Stmt_return ==
    /\ CurStmt = "return"
    /\ frame' = IdleFrame
    /\ trace' = <<>>
    /\ pre' = NoPre
    /\ UNCHANGED <<Ts, reader, alive, type_idx, m_storage>>

\* variant.hpp:353  end of ~Variant: the object's storage is released.
Stmt_end_lifetime ==
    /\ CurStmt = "end_lifetime"
    /\ alive' = [alive EXCEPT ![frame.self] = FALSE]
    /\ type_idx' = [type_idx EXCEPT ![frame.self] = null_type]
    /\ m_storage' = [m_storage EXCEPT ![frame.self] = RawCell]
    /\ frame' = IdleFrame
    /\ trace' = <<>>
    /\ pre' = NoPre
    /\ UNCHANGED <<Ts, reader>>

\* ----------------------------------------------------- reads and compares
\* variant.hpp:193-197  v.get<idx>(); an idx outside the list does not compile
Call_get(v, idx) ==
    /\ frame.pc = 0
    /\ alive[v]
    /\ idx \in 0..(m_size - 1)
    /\ Enter("get", v, 0, "none", idx, FALSE)

\* variant.hpp:199-213  v.get<T>(); static_assert(id != -1)
Call_get_T(v, T) ==
    /\ frame.pc = 0
    /\ alive[v]
    /\ find_idx_by_type(T, Ts) # -1
    /\ Enter("get", v, 0, T, find_idx_by_type(T, Ts), FALSE)

\* variant.hpp:438-457  v == val; compiles for a listed, comparable type
Call_eq_value(v, T, val) ==
    /\ frame.pc = 0
    /\ alive[v]
    /\ remove_cvref_t(T) \in EqualityComparable
    /\ find_idx_by_type(remove_cvref_t(T), Ts) # -1
    /\ Enter("operator==(const T&)", v, 0, T, val, FALSE)

\* variant.hpp:424-429  v == other; static_assert(all_types_are_comparable)
Call_eq_variant(v, other) ==
    /\ frame.pc = 0
    /\ alive[v] /\ alive[other]
    /\ all_types_are_comparable(Ts)
    /\ Enter("operator==(const Variant&)", v, other, "none", 0, FALSE)

\* variant.hpp:194, 197  return get_storage_value<idx>(m_storage);
Stmt_get_storage_value ==
    /\ CurStmt = "get_storage_value"
    /\ trace' = Append(trace,
           Event("ref", frame.self, frame.val, 0,
                 SlotState(m_storage[frame.self], frame.val)))
    /\ Advance
    /\ UNCHANGED <<alive, type_idx, m_storage, pre>>

Bit(b) == IF b THEN 1 ELSE 0

\* variant.hpp:447-456  holds_alternative<U>() test, then get<U>() == other
Stmt_compare_value ==
    /\ CurStmt = "compare_value"
    /\ LET self == frame.self
           U == remove_cvref_t(frame.T)
           id == find_idx_by_type(U, Ts)
       IN \E r \in operator_eq_value(self, frame.T, frame.val) :
            trace' = trace
              \o (IF holds_alternative_T(U, self)
                  THEN <<Event("read", self, id, frame.val,
                               SlotState(m_storage[self], id))>>
                  ELSE <<>>)
              \o <<Event("result", self, id, Bit(r), "none")>>
    /\ Advance
    /\ UNCHANGED <<alive, type_idx, m_storage, pre>>

\* variant.hpp:431-435  index tests, then compare_func_table[type_idx]
Stmt_compare_variant ==
    /\ CurStmt = "compare_variant"
    /\ LET self == frame.self
           other == frame.other
           id == type_idx[self]
       IN \E r \in operator_eq(self, other) :
            trace' = trace
              \o (IF type_idx[self] = type_idx[other] /\ id # null_type
                  THEN <<Event("read", self, id, 0, SlotState(m_storage[self], id)),
                         Event("read", other, id, 0, SlotState(m_storage[other], id))>>
                  ELSE <<>>)
              \o <<Event("result", self, id, Bit(r), "none")>>
    /\ Advance
    /\ UNCHANGED <<alive, type_idx, m_storage, pre>>

Next ==
    \/ \E v \in Vars : Call_Variant_default(v)
    \/ \E v \in Vars, T \in Types : \E val \in AltVals(T) : Call_Variant_value(v, T, val)
    \/ \E v \in Vars, other \in Vars : Call_Variant_copy(v, other)
    \/ \E v \in Vars, other \in Vars : Call_Variant_move(v, other)
    \/ \E v \in Vars : Call_Variant_dtor(v)
    \/ \E v \in Vars, T \in Types, alias \in BOOLEAN :
         \E val \in AltVals(T) : Call_assign_value(v, T, val, alias)
    \/ \E v \in Vars, other \in Vars : Call_assign_copy(v, other)
    \/ \E v \in Vars, other \in Vars : Call_assign_move(v, other)
    \/ Stmt_init
    \/ Stmt_destroy
    \/ Stmt_reset_idx
    \/ Stmt_construct_variant_value
    \/ Stmt_set_idx
    \/ Stmt_if_self_return
    \/ Stmt_if_other_null_return
    \/ Stmt_table_copy
    \/ Stmt_table_move
    \/ Stmt_set_idx_from_other
    \/ Stmt_reset_other
    \/ Stmt_return
    \/ Stmt_end_lifetime
    \/ \E v \in Vars, idx \in 0..SizeMax : Call_get(v, idx)
    \/ \E v \in Vars, T \in Types : Call_get_T(v, T)
    \/ \E v \in Vars, T \in QueryTypes : \E val \in AltVals(T) : Call_eq_value(v, T, val)
    \/ Stmt_get_storage_value
    \/ Stmt_compare_value

Spec == Init /\ [][Next]_vars

\* A program that uses Variant<int, std::string, double> and compares
\* Variants with each other.
InitEq == Ts = ComparableTs /\ Start

NextEq ==
    \/ Next
    \/ \E v \in Vars, other \in Vars : Call_eq_variant(v, other)
    \/ Stmt_compare_variant

SpecEq == InitEq /\ [][NextEq]_vars

\* ------------------------------------------------ failing constructions
\* Types whose copy constructor can throw: std::string (allocation) and
\* Logger (main.cpp:13, not noexcept).
MayThrowOnCopy == {"string", "Logger"}

\* variant.hpp:148-150, 155-157  the placement new inside
\* construct_variant_value throws: no object is constructed, and the
\* exception leaves Variant(T&&) or operator=(T&&), neither being noexcept.
Throw_construct_variant_value ==
    /\ CurStmt = "construct_variant_value"
    /\ frame.T \in MayThrowOnCopy
    /\ trace' = Append(trace,
          Event("throw", frame.self, find_idx_by_type(frame.T, Ts), 0, "none"))
    /\ frame' = [frame EXCEPT !.op = Unwind(frame.op), !.pc = 1]
    /\ UNCHANGED <<Ts, reader, alive, type_idx, m_storage, pre>>

\* variant.hpp:253  the placement new inside construct_from_impl throws and
\* the exception leaves construct_from and the copy constructor or copy
\* assignment that called it.
Throw_table_copy ==
    /\ CurStmt = "table_copy"
    /\ find_type_by_idx(type_idx[frame.other], Ts) \in MayThrowOnCopy
    /\ trace' = Append(trace,
          Event("throw", frame.self, type_idx[frame.other], 0, "none"))
    /\ frame' = [frame EXCEPT !.op = Unwind(frame.op), !.pc = 1]
    /\ UNCHANGED <<Ts, reader, alive, type_idx, m_storage, pre>>

\* The exception reaches the caller of the assignment.
Stmt_propagate ==
    /\ CurStmt = "propagate"
    /\ frame' = IdleFrame
    /\ trace' = <<>>
    /\ pre' = NoPre
    /\ UNCHANGED <<Ts, reader, alive, type_idx, m_storage>>

NextThrow ==
    \/ Next
    \/ Throw_construct_variant_value
    \/ Throw_table_copy
    \/ Stmt_propagate

SpecThrow == Init /\ [][NextThrow]_vars

\* Programs over any of the three specializations; a list whose
\* alternatives are all trivially destructible is one of them.
TrivialTs == <<"int", "double">>

AltLists == {MainTs, ComparableTs, TrivialTs}

InitAny == Ts \in AltLists /\ Start

SpecAny == InitAny /\ [][NextEq]_vars

\* ------------------------------------------------ the resolver by itself
\* README.md:166-203  the resolver is evaluated on lists of its own, as in
\* the static_assert examples; float is a type of those examples.
ResolverTypes == Types \cup {"float"}

\* The duplicate-free alternative lists of at most MaxLen types.
DuplicateFreeLists ==
    {l \in UNION {[1..n -> ResolverTypes] : n \in 0..MaxLen} :
        \A i \in 1..Len(l), j \in 1..Len(l) : l[i] = l[j] => i = j}

InitResolver == Ts \in DuplicateFreeLists /\ Start

\* variant.hpp:74-75  find_idx_by_type<T, Ts...>
Apply_find_idx_by_type(T) ==
    /\ frame.pc = 0
    /\ trace' = <<Event("find_idx_by_type", 0, find_idx_by_type(T, Ts), 0, T)>>
    /\ UNCHANGED <<Ts, reader, alive, type_idx, m_storage, frame, pre>>

\* variant.hpp:77-92  find_type_by_idx_t<i, Ts...>; static_assert for i in range
Apply_find_type_by_idx(i) ==
    /\ frame.pc = 0
    /\ i \in 0..(m_size - 1)
    /\ trace' = <<Event("find_type_by_idx", 0, i, 0, find_type_by_idx(i, Ts))>>
    /\ UNCHANGED <<Ts, reader, alive, type_idx, m_storage, frame, pre>>

NextResolver ==
    \/ \E T \in ResolverTypes : Apply_find_idx_by_type(T)
    \/ \E i \in 0..(MaxLen - 1) : Apply_find_type_by_idx(i)

SpecResolver == InitResolver /\ [][NextResolver]_vars

\* ------------------------------------------------------- a second thread
\* variant.hpp:219-228  the reader calls v.holds_alternative<T>() while the
\* other thread may be anywhere in a member function of v; when the answer
\* is false the reader does nothing.
Reader_holds_alternative(v, T) ==
    /\ reader.pc = 0
    /\ alive[v]
    /\ holds_alternative_T(T, v)
    /\ reader' = [pc |-> 1, v |-> v, T |-> T, busy |-> frame.pc # 0,
                  cell |-> m_storage[v], s |-> "none", held |-> -1]
    /\ UNCHANGED <<Ts, alive, type_idx, m_storage, frame, trace, pre>>

\* The reader's get<T>() made to wait until no member function is running.
Reader_get_locked ==
    /\ reader.pc = 1
    /\ frame.pc = 0
    /\ reader' = [reader EXCEPT
                    !.pc = 2,
                    !.s = SlotState(m_storage[reader.v],
                                    find_idx_by_type(reader.T, Ts)),
                    !.held = type_idx[reader.v],
                    !.busy = \/ reader.busy
                             \/ frame.pc # 0
                             \/ m_storage[reader.v] # reader.cell]
    /\ UNCHANGED <<Ts, alive, type_idx, m_storage, frame, trace, pre>>

\* variant.hpp:199-213  the reader calls v.get<T>() and uses the reference;
\* nothing in get waits for the other thread.
Reader_get ==
    /\ reader.pc = 1
    /\ reader' = [reader EXCEPT
                    !.pc = 2,
                    !.s = SlotState(m_storage[reader.v],
                                    find_idx_by_type(reader.T, Ts)),
                    !.held = type_idx[reader.v],
                    !.busy = \/ reader.busy
                             \/ frame.pc # 0
                             \/ m_storage[reader.v] # reader.cell]
    /\ UNCHANGED <<Ts, alive, type_idx, m_storage, frame, trace, pre>>

\* The reader is done with the reference.
Reader_done ==
    /\ reader.pc = 2
    /\ reader' = IdleReader
    /\ UNCHANGED <<Ts, alive, type_idx, m_storage, frame, trace, pre>>

\* One thread constructs, assigns to and destroys Variants while the second
\* thread reads them, without mutual exclusion.
NextMT ==
    \/ \E v \in Vars, T \in Types : \E val \in AltVals(T) :
           Call_Variant_value(v, T, val)
    \/ \E v \in Vars, T \in Types : \E val \in AltVals(T) :
           Call_assign_value(v, T, val, FALSE)
    \/ \E v \in Vars : Call_Variant_dtor(v)
    \/ Stmt_init
    \/ Stmt_destroy
    \/ Stmt_reset_idx
    \/ Stmt_construct_variant_value
    \/ Stmt_set_idx
    \/ Stmt_return
    \/ Stmt_end_lifetime
    \/ \E v \in Vars, T \in Types : Reader_holds_alternative(v, T)
    \/ Reader_get
    \/ Reader_done

SpecMT == Init /\ [][NextMT]_vars
\* ===================================================== claims: vocabulary
\* The position of alternative type T in the list, read off the list itself.
IndexOf(T) == CHOOSE i \in 0..(m_size - 1) : Ts[i + 1] = T

\* The running member function op has executed all its statements.
AtReturn(op) == frame.op = op /\ CurStmt = "return"

IsDtorOfSelf(e) == e.e = "dtor" /\ e.v = frame.self
IsDtor(e) == e.e = "dtor"
IsNotRead(e) == e.e # "read"

\* Destructor calls the running member function made on its own cell.
DtorsOfSelf == SelectSeq(trace, IsDtorOfSelf)

\* The value self held when the member function was called was destroyed
\* exactly once if there was one, and no destructor ran otherwise.
PreviousDestroyedOnce ==
    LET self == frame.self
        old == pre.type_idx[self]
    IN /\ Len(SelectSeq(trace, IsDtor)) = (IF old = null_type THEN 0 ELSE 1)
       /\ old # null_type =>
            /\ Len(DtorsOfSelf) = 1
            /\ DtorsOfSelf[1].a = old
            /\ DtorsOfSelf[1].s = "live"
            /\ DtorsOfSelf[1].x = pre.m_storage[self].val

\* Variant v is unchanged since the member function was called.
SameAsBefore(v) ==
    /\ type_idx[v] = pre.type_idx[v]
    /\ m_storage[v] = pre.m_storage[v]

\* The order of the lifecycle events, without the reads of a source.
Order == [k \in 1..Len(SelectSeq(trace, IsNotRead)) |->
            LET e == SelectSeq(trace, IsNotRead)[k] IN <<e.e, e.v, e.a>>]

\* ------------------------------------------------------------------- C1
\* C1: for every alternative type T and value val, when Variant(T&& val)
\* has run, index() is the position of T in the list, holds_alternative<T>()
\* is true, and get<index_of(T)>() and get<T>() yield val.
C1_ValueConstruction ==
    AtReturn("Variant(T&&)") =>
        LET v == frame.self
            i == IndexOf(frame.T)
        IN /\ index(v) = i
           /\ holds_alternative_T(frame.T, v)
           /\ get(i, v) = {frame.val}
           /\ get_T(frame.T, v) = {frame.val}

C1_Witness ==
    /\ AtReturn("Variant(T&&)")
    /\ frame.T = "Logger" /\ frame.val = 2
    /\ index(frame.self) = 2

\* ------------------------------------------------------------------- C2
\* C2 (result): when the copy constructor has run on a source that held
\* alternative i, the target has discriminant i and a value equal to the
\* source's, and the source's discriminant and cell are as before the call.
C2_CopyResult ==
    (AtReturn("Variant(const Variant&)") /\ pre.type_idx[frame.other] # null_type) =>
        LET i == pre.type_idx[frame.other] IN
        /\ index(frame.self) = i
        /\ get(i, frame.self) = {pre.m_storage[frame.other].val}
        /\ m_storage[frame.self].st = "live"
        /\ SameAsBefore(frame.other)

\* C2 (independence): no statement of a member function changes the
\* discriminant, the cell or the lifetime of a Variant that is neither the
\* object the function was called on nor its argument; so assigning to or
\* destroying a copy leaves the Variant it was copied from as it is.
C2_Independent(u) ==
    (frame.pc # 0 /\ u # frame.self /\ u # frame.other) =>
        /\ type_idx'[u] = type_idx[u]
        /\ m_storage'[u] = m_storage[u]
        /\ alive'[u] = alive[u]

\* C2: copy construction yields an equal, independent copy and leaves the
\* source unchanged.
C2_CopyConstruction ==
    /\ []C2_CopyResult
    /\ [][\A u \in Vars : C2_Independent(u)]_vars

C2_Witness ==
    /\ AtReturn("Variant(const Variant&)")
    /\ pre.type_idx[frame.other] = 2
    /\ index(frame.self) = 2
    /\ m_storage[frame.self].val = 2

\* ------------------------------------------------------------------- C3
\* C3: when the move constructor has run on a source that held alternative
\* i with value x, the target has discriminant i and value x, and the
\* source's index() is -1.
C3_MoveConstruction ==
    (AtReturn("Variant(Variant&&)") /\ pre.type_idx[frame.other] # null_type) =>
        LET i == pre.type_idx[frame.other] IN
        /\ index(frame.self) = i
        /\ get(i, frame.self) = {pre.m_storage[frame.other].val}
        /\ index(frame.other) = -1

C3_Witness ==
    /\ AtReturn("Variant(Variant&&)")
    /\ pre.type_idx[frame.other] = 2
    /\ index(frame.self) = 2
    /\ index(frame.other) = -1

\* ------------------------------------------------------------------- C4
\* C4: when operator=(T&& val) has run, from any prior state of the Variant,
\* its lifecycle events were, in this order: the destructor of the value
\* held before (once, and only if one was held), the discriminant set to
\* -1, the construction of T in the cell, the discriminant set to the
\* position of T; then index() is that position and, val being an object of
\* its own, get<T>() yields val.
C4_ValueAssignment ==
    AtReturn("operator=(T&&)") =>
        LET v == frame.self
            i == IndexOf(frame.T)
            old == pre.type_idx[v]
        IN /\ Order = (IF old = null_type THEN <<>> ELSE << <<"dtor", v, old>> >>)
                        \o << <<"idx", v, -1>>, <<"ctor", v, i>>, <<"idx", v, i>> >>
           /\ PreviousDestroyedOnce
           /\ index(v) = i
           /\ ~frame.alias => get_T(frame.T, v) = {frame.val}

C4_Witness ==
    /\ AtReturn("operator=(T&&)")
    /\ pre.type_idx[frame.self] = 0
    /\ frame.T = "Logger"
    /\ Len(trace) = 4
    /\ index(frame.self) = 2

\* ------------------------------------------------------------------- C5
\* C5: when copy assignment t = s has run with s another Variant that held
\* alternative j, t's previous value was destroyed exactly once (not at all
\* if t was Empty), t has discriminant j and a value equal to s's, and s's
\* discriminant and cell are as before the call.
C5_CopyAssignment ==
    (/\ AtReturn("operator=(const Variant&)")
     /\ frame.self # frame.other
     /\ pre.type_idx[frame.other] # null_type) =>
        LET j == pre.type_idx[frame.other] IN
        /\ PreviousDestroyedOnce
        /\ index(frame.self) = j
        /\ get(j, frame.self) = {pre.m_storage[frame.other].val}
        /\ SameAsBefore(frame.other)

C5_Witness ==
    /\ AtReturn("operator=(const Variant&)")
    /\ frame.self # frame.other
    /\ pre.type_idx[frame.self] = 2
    /\ pre.type_idx[frame.other] = 1
    /\ index(frame.self) = 1
    /\ Len(DtorsOfSelf) = 1

\* ------------------------------------------------------------------- C6
\* C6: when move assignment t = std::move(s) has run with s another Variant
\* that held alternative j with value x, t's previous value was destroyed
\* exactly once (not at all if t was Empty), t has discriminant j and value
\* x, and s.index() is -1.
C6_MoveAssignment ==
    (/\ AtReturn("operator=(Variant&&)")
     /\ frame.self # frame.other
     /\ pre.type_idx[frame.other] # null_type) =>
        LET j == pre.type_idx[frame.other] IN
        /\ PreviousDestroyedOnce
        /\ index(frame.self) = j
        /\ get(j, frame.self) = {pre.m_storage[frame.other].val}
        /\ index(frame.other) = -1

C6_Witness ==
    /\ AtReturn("operator=(Variant&&)")
    /\ frame.self # frame.other
    /\ pre.type_idx[frame.self] = 1
    /\ pre.type_idx[frame.other] = 2
    /\ index(frame.self) = 2
    /\ index(frame.other) = -1
    /\ Len(DtorsOfSelf) = 1

\* ------------------------------------------------------------------- C7
\* C7: while and after v = v or v = std::move(v) runs, in every state of v,
\* the discriminant and the cell of v are what they were at the call and no
\* destructor, constructor or discriminant write has happened.
C7_SelfAssignment ==
    (/\ frame.op \in {"operator=(const Variant&)", "operator=(Variant&&)"}
     /\ frame.self = frame.other) =>
        /\ trace = <<>>
        /\ SameAsBefore(frame.self)
        /\ alive[frame.self]

C7_Witness ==
    /\ AtReturn("operator=(Variant&&)")
    /\ frame.self = frame.other
    /\ index(frame.self) = 2
\* ------------------------------------------------------------------- C8
\* A read of a value whose (non-trivial) destructor has already run.
IsReadOutsideLifetime(e) ==
    /\ e.e = "read" /\ e.s # "live"
    /\ find_type_by_idx(e.a, Ts) \notin TriviallyDestructible

\* C8: when operator=(T&& val) runs on a Variant that holds T, with val an
\* object of its own or the reference get<T>() to the held value, no value
\* is read after its destructor has run, and when it has run the Variant
\* holds T with the value val had at the call.
C8_SameAlternativeAssignment ==
    (/\ frame.op = "operator=(T&&)"
     /\ pre.type_idx[frame.self] = IndexOf(frame.T)) =>
        /\ SelectSeq(trace, IsReadOutsideLifetime) = <<>>
        /\ CurStmt = "return" =>
             /\ index(frame.self) = IndexOf(frame.T)
             /\ get_T(frame.T, frame.self) = {frame.val}

\* ------------------------------------------------------------------- C9
\* C9: in no state, inside or between member functions, does a Variant have
\* a discriminant i >= 0 while the destructor of the value of alternative i
\* in its cell has already run (alternatives with a non-trivial destructor).
C9_ResetBeforeDestructor ==
    \A v \in Vars :
        (/\ alive[v] /\ type_idx[v] >= 0
         /\ find_type_by_idx(type_idx[v], Ts) \notin TriviallyDestructible) =>
            SlotState(m_storage[v], type_idx[v]) # "destroyed"

\* ------------------------------------------------------------------ C10
\* C10 (states): in no state does a Variant have a discriminant i >= 0 while
\* no value of alternative i has been constructed in its cell.
C10_NoIndexOverRawCell ==
    \A v \in Vars :
        (alive[v] /\ type_idx[v] >= 0) =>
            SlotState(m_storage[v], type_idx[v]) # "raw"

IsCtorOf(e, v, i) == e.e = "ctor" /\ e.v = v /\ e.a = i

\* C10 (writes): a statement writes i >= 0 to the discriminant of v only
\* when the running member function has already constructed a value of
\* alternative i in v's cell and that value is alive.
C10_WriteAfterConstruction(v) ==
    (type_idx'[v] # type_idx[v] /\ type_idx'[v] >= 0) =>
        /\ SlotState(m_storage[v], type_idx'[v]) = "live"
        /\ \E k \in 1..Len(trace) : IsCtorOf(trace[k], v, type_idx'[v])
        /\ m_storage'[v] = m_storage[v]

\* C10: every member function that makes a Variant hold alternative i writes
\* the discriminant only after the value has been constructed in place.
C10_IndexAfterConstruction ==
    /\ []C10_NoIndexOverRawCell
    /\ [][\A v \in Vars : C10_WriteAfterConstruction(v)]_vars

C10_Witness ==
    /\ AtReturn("operator=(const Variant&)")
    /\ Len(trace) >= 2
    /\ trace[Len(trace)] = Event("idx", frame.self, 1, 0, "none")
    /\ IsCtorOf(trace[Len(trace) - 1], frame.self, 1)
    /\ index(frame.self) = 1

\* ------------------------------------------------------------------ C11
\* No member function is running: the state is one between two public
\* operations.
BetweenOperations == frame.pc = 0

\* C11: between public operations, the cell of every Variant (the source of
\* a move included) holds a constructed and not yet destroyed object exactly
\* when the discriminant is not the sentinel, and that object is of the
\* alternative the discriminant names.  The "only if" half is stated for the
\* alternatives whose destructor does something; an int left behind is
\* already enough to refute the sentence as written.
C11_DiscriminantIsLiveness ==
    BetweenOperations =>
      \A v \in Vars : alive[v] =>
        LET cell == m_storage[v] IN
        /\ type_idx[v] # null_type =>
              cell.st = "live" /\ cell.alt = type_idx[v]
        /\ (/\ cell.st = "live"
            /\ find_type_by_idx(cell.alt, Ts) \notin TriviallyDestructible)
              => type_idx[v] = cell.alt

\* ------------------------------------------------------------------ C12
IsRef(e) == e.e = "ref"
IsBadAccess(e) == e.e = "bad_access"

\* C12: get<idx>() and get<T>() report a bad access and give no reference
\* when the requested alternative is not the one held (idx # type_idx), and
\* the reference they return is never to an alternative that is not live.
C12_CheckedGet ==
    AtReturn("get") =>
      /\ frame.val # type_idx[frame.self] =>
            /\ Len(SelectSeq(trace, IsBadAccess)) = 1
            /\ Len(SelectSeq(trace, IsRef)) = 0
      /\ \A k \in 1..Len(trace) : IsRef(trace[k]) => trace[k].s = "live"

\* ------------------------------------------------------------------ C13
\* ~Variant() has executed its body; the object's lifetime ends next.
AtEndOfDtor == frame.op = "~Variant" /\ CurStmt = "end_lifetime"

\* C13: when ~Variant() has run on a Variant holding alternative i, the
\* destructor of alternative i ran exactly once, on the held value; when it
\* has run on an Empty Variant (default-constructed, moved-from or copied
\* from Empty), no alternative destructor ran.
C13_DestructorRunsOnce ==
    AtEndOfDtor =>
      /\ PreviousDestroyedOnce
      /\ pre.type_idx[frame.self] = null_type => trace = <<>>

C13_Witness ==
    /\ AtEndOfDtor
    /\ pre.type_idx[frame.self] = 2
    /\ Len(DtorsOfSelf) = 1
    /\ DtorsOfSelf[1].s = "live"

C15_HoldsAlternativeByIndex ==
    \A v \in Vars : alive[v] =>
      \A i \in 0..SizeMax : holds_alternative_id(i, v) <=> (type_idx[v] = i)

\* ------------------------------------------------------------------ C16
\* C16: index() of every live Variant is the stored discriminant, and is
\* the sentinel or a position of the alternative list; it is the sentinel
\* when the default constructor has run, and for the source when a move
\* construction or a move assignment from another object has run.
C16_IndexRange ==
    /\ \A v \in Vars : alive[v] =>
          /\ index(v) = type_idx[v]
          /\ index(v) \in {null_type} \cup 0..(m_size - 1)
    /\ AtReturn("Variant()") => index(frame.self) = -1
    /\ AtReturn("Variant(Variant&&)") => index(frame.other) = -1
    /\ (AtReturn("operator=(Variant&&)") /\ frame.other # frame.self)
          => index(frame.other) = -1

C16_Witness ==
    /\ AtReturn("operator=(Variant&&)")
    /\ frame.other # frame.self
    /\ pre.type_idx[frame.other] = m_size - 1
    /\ index(frame.self) = m_size - 1
    /\ index(frame.other) = -1

\* ------------------------------------------------------------------ C17
\* What the running comparison returned.
Result == trace[Len(trace)].e = "result" /\ trace[Len(trace)].x = 1

IsRead(e) == e.e = "read"

\* C17: a == b on two Variants is true exactly when both are Empty, or both
\* have the same discriminant i and their alternative-i values are equal; a
\* Variant holding alternative i is never equal to one holding another
\* alternative, whatever the two values are.
C17_VariantEquality ==
    AtReturn("operator==(const Variant&)") =>
      LET a == frame.self
          b == frame.other
      IN /\ Result <=>
              \/ type_idx[a] = null_type /\ type_idx[b] = null_type
              \/ /\ type_idx[a] # null_type
                 /\ type_idx[a] = type_idx[b]
                 /\ m_storage[a].val = m_storage[b].val
         /\ type_idx[a] # type_idx[b] => ~Result

C17_Witness ==
    /\ AtReturn("operator==(const Variant&)")
    /\ type_idx[frame.self] = find_idx_by_type("int", Ts)
    /\ type_idx[frame.other] = find_idx_by_type("double", Ts)
    /\ m_storage[frame.self].val = m_storage[frame.other].val
    /\ ~Result

\* ------------------------------------------------------------------ C18
\* C18: a == a is true for every Variant a, Empty and moved-from ones
\* included, and a == b returns what b == a returns.
C18_ReflexiveSymmetric ==
    /\ AtReturn("operator==(const Variant&)") =>
          /\ frame.other = frame.self => Result
          /\ operator_eq(frame.other, frame.self) = {Result}
    /\ BetweenOperations =>
          \A a \in Vars, b \in Vars : (alive[a] /\ alive[b]) =>
             /\ operator_eq(a, a) = {TRUE}
             /\ operator_eq(a, b) = operator_eq(b, a)

C18_Witness ==
    /\ AtReturn("operator==(const Variant&)")
    /\ frame.other = frame.self
    /\ type_idx[frame.self] = null_type
    /\ m_storage[frame.self].st = "live"
    /\ Result

\* ------------------------------------------------------------------ C19
\* C19: v == val, for val of a listed type T, is true exactly when v holds
\* T and the held value equals val; when v is Empty or holds another
\* alternative it is false and the cell was not accessed.
C19_ValueEquality ==
    AtReturn("operator==(const T&)") =>
      LET self == frame.self
          id == IndexOf(remove_cvref_t(frame.T))
      IN /\ Result <=>
              (type_idx[self] = id /\ m_storage[self].val = frame.val)
         /\ type_idx[self] # id =>
              ~Result /\ Len(SelectSeq(trace, IsRead)) = 0
         /\ \A k \in 1..Len(trace) : IsRead(trace[k]) => trace[k].s = "live"

C19_Witness ==
    /\ AtReturn("operator==(const T&)")
    /\ frame.T = "const string&"
    /\ holds_alternative_T("string", frame.self)
    /\ m_storage[frame.self].val = frame.val
    /\ Len(SelectSeq(trace, IsRead)) = 1
    /\ Result

\* ------------------------------------------------------------------ C20
IsCtorEvent(e) == e.e = "ctor"

\* The member functions that take another Variant as their source.
FromVariantOps ==
    {"Variant(const Variant&)", "Variant(Variant&&)",
     "operator=(const Variant&)", "operator=(Variant&&)"}

\* C20: when a copy construction, move construction, copy assignment or
\* move assignment from an Empty source has run, the target is Empty, the
\* source is Empty and untouched, no copy or move table entry was invoked,
\* and the value the target held before was destroyed exactly once.
C20_FromEmptySource ==
    \A op \in FromVariantOps :
      (AtReturn(op) /\ pre.type_idx[frame.other] = null_type) =>
        /\ index(frame.self) = -1
        /\ index(frame.other) = -1
        /\ m_storage[frame.other] = pre.m_storage[frame.other]
        /\ Len(SelectSeq(trace, IsCtorEvent)) = 0
        /\ Len(SelectSeq(trace, IsRead)) = 0
        /\ PreviousDestroyedOnce

C20_Witness ==
    /\ AtReturn("operator=(const Variant&)")
    /\ frame.other # frame.self
    /\ pre.type_idx[frame.other] = null_type
    /\ pre.type_idx[frame.self] = m_size - 1
    /\ Len(DtorsOfSelf) = 1
    /\ index(frame.self) = -1

\* ------------------------------------------------------------------ C21
\* The reader's get<T>() reached a value that has been destroyed (or was
\* never constructed), or a Variant that no longer holds T.
BadAccess ==
    /\ reader.pc = 2
    /\ \/ reader.s # "live"
       \/ reader.held # find_idx_by_type(reader.T, Ts)

\* C21: the container does not synchronize: after holds_alternative<T>()
\* answered true, get<T>() can run at every position of an assignment or
\* destruction the other thread is executing on the same instance.  The
\* reader then reaches a destroyed value or another alternative only when
\* a member function was running at the check or at the access, or the cell
\* was written between the two.
C21_NoSynchronization ==
    /\ reader.pc = 1 => ENABLED Reader_get
    /\ BadAccess => reader.busy

C21_Witness ==
    /\ BadAccess
    /\ reader.s = "destroyed"
    /\ frame.op = "operator=(T&&)"
    /\ frame.self = reader.v
    /\ reader.cell.st = "live"

\* ------------------------------------------------------------------ C22
Listed(T) == \E i \in 1..m_size : Ts[i] = remove_cvref_t(T)

IsIdxEvent(e) == e.e = "idx"

\* C22: no execution runs a value construction, a value assignment or a
\* get<T>() for a type that is not in the list, or a Variant-vs-Variant
\* comparison when some alternative has no operator==; no cell ever holds,
\* and no discriminant ever names, anything but a listed alternative.
C22_RejectedBeforeRunning ==
    /\ frame.op \in {"Variant(T&&)", "operator=(T&&)"} => Listed(frame.T)
    /\ (frame.op = "get" /\ frame.T # "none") => Listed(frame.T)
    /\ frame.op = "operator==(const Variant&)" =>
          \A i \in 1..m_size : Ts[i] \in EqualityComparable
    /\ \A v \in Vars :
          /\ m_storage[v].alt \in -1..(m_size - 1)
          /\ type_idx[v] \in -1..(m_size - 1)
    /\ \A k \in 1..Len(trace) :
          /\ IsCtorEvent(trace[k]) => trace[k].a \in 0..(m_size - 1)
          /\ IsIdxEvent(trace[k]) => trace[k].a \in -1..(m_size - 1)

C22_Witness ==
    /\ Ts = MainTs
    /\ AtReturn("operator=(T&&)")
    /\ frame.T = "Logger"
    /\ m_storage[frame.self].alt = m_size - 1
    /\ type_idx[frame.self] = m_size - 1

\* ------------------------------------------------------------------ C23
\* A move construction or a move assignment from another Variant that
\* holds an alternative is running.
MoveRunning ==
    /\ frame.op \in {"Variant(Variant&&)", "operator=(Variant&&)"}
    /\ frame.pc > 0
    /\ frame.other # frame.self
    /\ pre.type_idx[frame.other] # null_type

\* Positions in the trace of the writes to the discriminant of v.
IdxWrites(v) == {k \in 1..Len(trace) : trace[k].e = "idx" /\ trace[k].v = v}

\* C23 (states): during a move from a source that holds alternative i, the
\* source's discriminant is i as long as it has not been written, and it is
\* written only once, with the sentinel, after the value has been
\* move-constructed in the target and the target's discriminant set to i.
C23_SourceResetLast ==
    MoveRunning =>
      LET self == frame.self
          other == frame.other
          i == pre.type_idx[other]
      IN /\ IdxWrites(other) = {} => type_idx[other] = i
         /\ \A k \in IdxWrites(other) :
               /\ trace[k].a = null_type
               /\ IdxWrites(other) = {k}
               /\ \E c \in 1..(k - 1) : \E w \in (c + 1)..(k - 1) :
                     /\ IsCtorOf(trace[c], self, i)
                     /\ trace[w] = Event("idx", self, i, 0, "none")

\* C23 (steps): the per-alternative move function writes no discriminant.
C23_MoveFunctionKeepsIndices ==
    CurStmt = "table_move" => type_idx' = type_idx

C23_SourceDiscriminantDuringMove ==
    /\ []C23_SourceResetLast
    /\ [][C23_MoveFunctionKeepsIndices]_vars

C23_Witness ==
    /\ AtReturn("Variant(Variant&&)")
    /\ pre.type_idx[frame.other] = 2
    /\ Len(trace) = 5
    /\ IsCtorOf(trace[3], frame.self, 2)
    /\ trace[4] = Event("idx", frame.self, 2, 0, "none")
    /\ trace[5] = Event("idx", frame.other, null_type, 0, "none")

\* ------------------------------------------------------------------ C24
\* The discriminant of v is a valid table index and the cell of v holds an
\* object in the slot of that alternative.
HoldsValidIndex(v) ==
    /\ type_idx[v] \in 0..(m_size - 1)
    /\ m_storage[v].alt = type_idx[v]
    /\ m_storage[v].st = "live"

\* Events of the table entries: destroy_func, the copy and move
\* constructor tables, compare_func_table.
IsTableEvent(e) == e.e \in {"dtor", "read", "ctor"}

\* C24: a dispatch table is only ever indexed with the discriminant of a
\* Variant that holds an alternative, never with the sentinel or a value
\* outside [0, n); entry i acts on the slot and type of alternative i, which
\* is the alternative held.
C24_TableIndexIsHeldAlternative ==
    /\ (CurStmt = "destroy" /\ type_idx[frame.self] # null_type) =>
          /\ HoldsValidIndex(frame.self)
          /\ find_idx_by_type(find_type_by_idx(type_idx[frame.self], Ts), Ts)
               = type_idx[frame.self]
    /\ CurStmt \in {"table_copy", "table_move"} => HoldsValidIndex(frame.other)
    /\ (CurStmt = "compare_variant" /\ type_idx[frame.self] = type_idx[frame.other]
          /\ type_idx[frame.self] # null_type) =>
          HoldsValidIndex(frame.self) /\ HoldsValidIndex(frame.other)
    /\ frame.op \notin {"Variant(T&&)", "operator=(T&&)", "operator==(const T&)"} =>
          \A k \in 1..Len(trace) : IsTableEvent(trace[k]) =>
             /\ trace[k].a \in 0..(m_size - 1)
             /\ trace[k].a = pre.type_idx[IF trace[k].e = "dtor"
                                           THEN frame.self ELSE frame.other]
             /\ trace[k].e \in {"dtor", "read"} => trace[k].s = "live"

C24_Witness ==
    /\ AtReturn("operator=(const Variant&)")
    /\ frame.self # frame.other
    /\ pre.type_idx[frame.self] = 0
    /\ pre.type_idx[frame.other] = 2
    /\ Len(SelectSeq(trace, IsTableEvent)) = 3
    /\ SelectSeq(trace, IsTableEvent)[1].a = 0
    /\ SelectSeq(trace, IsTableEvent)[2].a = 2
    /\ SelectSeq(trace, IsTableEvent)[3].a = 2

\* ------------------------------------------------------------------ C25
\* C25: on a duplicate-free list, find_idx_by_type<T> is the position in
\* [0, n) at which the list has T and -1 when the list (the empty one
\* included) does not have T; find_idx_by_type of find_type_by_idx_t<i> is i
\* for every i in [0, n); find_idx_by_type<float, int, double, float> is 2.
C25_ResolverBijection ==
    /\ \A k \in 1..Len(trace) :
          /\ trace[k].e = "find_idx_by_type" =>
                IF \E i \in 1..m_size : Ts[i] = trace[k].s
                THEN /\ trace[k].a \in 0..(m_size - 1)
                     /\ Ts[trace[k].a + 1] = trace[k].s
                ELSE trace[k].a = -1
          /\ trace[k].e = "find_type_by_idx" =>
                /\ trace[k].s = Ts[trace[k].a + 1]
                /\ find_idx_by_type(trace[k].s, Ts) = trace[k].a
    /\ \A i \in 0..(m_size - 1) :
          find_idx_by_type(find_type_by_idx(i, Ts), Ts) = i
    /\ Ts = <<>> => \A T \in ResolverTypes : find_idx_by_type(T, Ts) = -1
    /\ Ts = <<"int", "double", "float">> => find_idx_by_type("float", Ts) = 2

C25_Witness ==
    /\ Ts = <<"int", "double", "float">>
    /\ trace = <<Event("find_idx_by_type", 0, 2, 0, "float")>>

\* ------------------------------------------------------------------ C26
\* ~Variant() has finished a body that does not call destroy().
DestroySkipped ==
    /\ AtEndOfDtor
    /\ \A k \in 1..Len(Variant_dtor) : Variant_dtor[k] # "destroy"

\* What a call of destroy() on v would change that a program can observe:
\* a destructor that does something would run, or the held bytes would
\* change.  destroy() writes no discriminant.
DestroyWouldShow(v) ==
    /\ type_idx[v] # null_type
    /\ \/ find_type_by_idx(type_idx[v], Ts) \notin TriviallyDestructible
       \/ destroy_variant_value(type_idx[v], m_storage[v]).val # m_storage[v].val
       \/ destroy_variant_value(type_idx[v], m_storage[v]).alt # m_storage[v].alt

\* C26: whenever ~Variant() skips destroy(), which it does exactly for the
\* lists whose alternatives are all trivially destructible, the call it
\* skipped would have run no destructor that does something and changed no
\* discriminant and no held value: the destructor with the call and the one
\* without it leave the same state and the same observable events.
C26_SkippedDestroyUnobservable ==
    /\ DestroySkipped => trace = <<>> /\ ~DestroyWouldShow(frame.self)
    /\ (AtEndOfDtor /\ \A i \in 1..m_size : Ts[i] \in TriviallyDestructible)
          => DestroySkipped

C26_Witness ==
    /\ DestroySkipped
    /\ Ts = TrivialTs
    /\ type_idx[frame.self] = 1
    /\ m_storage[frame.self] = LiveCell(1, MaxVal)

\* ------------------------------------------------------------------ C27
\* C27: every destructor call is made on a slot that holds a constructed,
\* not yet destroyed object (so no object is destroyed twice and no
\* destructor runs where nothing was constructed), and a member function
\* calls a destructor at most once; a self-assignment calls none.
C27_NoDoubleDestroy ==
    /\ \A k \in 1..Len(trace) : IsDtor(trace[k]) =>
          /\ trace[k].s = "live"
          /\ trace[k].a = pre.m_storage[trace[k].v].alt
          /\ trace[k].x = pre.m_storage[trace[k].v].val
    /\ Len(SelectSeq(trace, IsDtor)) <= 1
    /\ \A k \in 1..Len(trace) : IsDtor(trace[k]) =>
          m_storage[trace[k].v].st # "live" \/ \E c \in (k + 1)..Len(trace) :
                                                 IsCtorEvent(trace[c])
    /\ (frame.pc > 0 /\ frame.other = frame.self) =>
          Len(SelectSeq(trace, IsDtor)) = 0

C27_Witness ==
    /\ AtReturn("operator=(Variant&&)")
    /\ frame.other # frame.self
    /\ pre.type_idx[frame.self] = 2
    /\ pre.type_idx[frame.other] = 2
    /\ Len(SelectSeq(trace, IsDtor)) = 1
    /\ DtorsOfSelf[1].s = "live"

\* ------------------------------------------------------------------ C28
\* An object whose destructor does something is in the cell of v.
HoldsUndestroyedObject(v) ==
    /\ m_storage[v].st = "live"
    /\ find_type_by_idx(m_storage[v].alt, Ts) \notin TriviallyDestructible

\* C28: no object is leaked: when ~Variant() has run its body, the cell
\* holds no object whose destructor has not run (the moved-from object of
\* a move source included), and no object is constructed over one whose
\* destructor has not run.
C28_NoLeak ==
    /\ AtEndOfDtor => ~HoldsUndestroyedObject(frame.self)
    /\ \A k \in 1..Len(trace) :
          (/\ IsCtorEvent(trace[k])
           /\ find_type_by_idx(trace[k].a, Ts) \notin TriviallyDestructible)
             => trace[k].s # "live"

\* ------------------------------------------------------------------ C29
\* A value assignment or a copy assignment has been left by an exception of
\* the construction of the new value.
AssignmentFailed ==
    /\ frame.op \in {"unwind operator=(T&&)", "unwind operator=(const Variant&)"}
    /\ CurStmt = "propagate"

\* C29: when the construction of the new value throws during a value
\* assignment or a copy assignment, the Variant is Empty, its previous value
\* was destroyed exactly once, nothing was constructed in its cell and the
\* source of a copy assignment is unchanged; no later member function runs
\* a destructor on a slot that holds no object.
C29_FailedAssignmentLeavesEmpty ==
    /\ AssignmentFailed =>
          /\ index(frame.self) = -1
          /\ PreviousDestroyedOnce
          /\ Len(SelectSeq(trace, IsCtorEvent)) = 0
          /\ m_storage[frame.self].st # "live" \/ pre.type_idx[frame.self] = null_type
          /\ frame.op = "unwind operator=(const Variant&)" => SameAsBefore(frame.other)
    /\ \A k \in 1..Len(trace) : IsDtor(trace[k]) => trace[k].s = "live"

C29_Witness ==
    /\ AssignmentFailed
    /\ frame.op = "unwind operator=(const Variant&)"
    /\ pre.type_idx[frame.self] = 2
    /\ pre.type_idx[frame.other] = 1
    /\ Len(DtorsOfSelf) = 1
    /\ index(frame.self) = -1
====
